---- MODULE Spec2Model ----
(***************************************************************************)
(* A model of the Validator chain engine of src/src/validator.js (the     *)
(* current implementation, lines 1-152).  Validator instances are objects *)
(* on a heap; each closes over the wrapped value x, a reference to the    *)
(* errs array and the options object.  The arrays live on a heap of their *)
(* own, because self() hands the same array to the new instance while     *)
(* errs.concat() allocates a new one.                                     *)
(***************************************************************************)
EXTENDS Integers, Sequences, FiniteSets

VARIABLES heap, arrs, hist, last, bound

vars == <<heap, arrs, hist, last, bound>>

\* Bound on the number of Validator instances allocated in one behaviour.
MaxObjs == 3

----------------------------------------------------------------------------
(* JavaScript values.  Primitives are [t, v]; Error objects carry name and *)
(* message as properties.                                                  *)

Null == [t |-> "null", v |-> ""]

Undefined == [t |-> "undefined", v |-> ""]

Bool(b) == [t |-> "boolean", v |-> IF b THEN "true" ELSE "false"]

Num(s) == [t |-> "number", v |-> s]

Str(s) == [t |-> "string", v |-> s]

\* The values wrapped by the validators of the model.
Values == {Null, Undefined, Num("1"), Str("foo"), Str("bar")}

\* The failure messages of the model (strings).
Msgs == {Str("s"), Str("n")}

\* An array literal of strings; v is what String(array) gives, the elements
\* joined with commas.
Arr(items, joined) == [t |-> "array", v |-> joined, items |-> items]

\* Variant of IsNil: x === null, which undefined does not satisfy.
IsNil_StrictNull(x) == x.t = "null"

\* x == null in JavaScript: true of null and of undefined only.
IsNil(x) == x.t \in {"null", "undefined"}

\* ToBoolean: the coercion applied by `test(x) ? ... : ...` and `passed ? ... : ...`.
Truthy(x) ==
  CASE x.t \in {"null", "undefined"} -> FALSE
    [] x.t = "boolean" -> x.v = "true"
    [] x.t = "number" -> x.v \notin {"0", "NaN"}
    [] x.t = "string" -> x.v # ""
    [] OTHER -> TRUE

\* Property lookup: a property the object does not have reads as undefined.
Get(obj, key) ==
  IF key \in DOMAIN obj THEN obj[key] ELSE Undefined

\* new Error(message)
NewError(name, message) == [t |-> "error", name |-> name, message |-> message.v]

\* lodash.iserror: an object whose tag is [object Error].
isError(val) == val.t = "error"

----------------------------------------------------------------------------
(* The caller-supplied predicates: unary functions of the wrapped value.   *)
(* A call either returns a value or throws one.                            *)

Return(val) == [threw |-> FALSE, val |-> val]

Throw(val) == [threw |-> TRUE, val |-> val]

\* const isString = x => typeof x === 'string';
isString(x) == Return(Bool(x.t = "string"))

\* v => v.startsWith('foo'): a TypeError on null, undefined and numbers.
startsWithFoo(x) ==
  IF x.t = "string"
    THEN Return(Bool(x.v \in {"foo", "foobar", "foobaz"}))
    ELSE Throw(NewError("TypeError", Str("v.startsWith is not a function")))

\* x => x.startsWith('bar'): the condition of another branch.
startsWithBar(x) ==
  IF x.t = "string"
    THEN Return(Bool(x.v \in {"bar", "barfoo"}))
    ELSE Throw(NewError("TypeError", Str("x.startsWith is not a function")))

\* x => x: a predicate whose result is not a boolean.
identity(x) == Return(x)

Preds == {"isString", "startsWithFoo", "identity"}

\* test(x) / condition(x)
Apply(f, x) ==
  CASE f = "isString" -> isString(x)
    [] f = "startsWithFoo" -> startsWithFoo(x)
    [] f = "identity" -> identity(x)
    [] f = "startsWithBar" -> startsWithBar(x)

----------------------------------------------------------------------------
(* The condition argument of assertWhen: a boolean, a function, or some   *)
(* other type.                                                             *)

CondBool(b) == [t |-> "boolean", b |-> b, f |-> ""]

CondFn(f) == [t |-> "function", b |-> FALSE, f |-> f]

CondOther(t) == [t |-> t, b |-> FALSE, f |-> ""]

NoCond == CondOther("none")

\* A condition of a type other than function, with its ToBoolean: 1, 'foo',
\* arrays and objects are truthy; 0, '', null and undefined are falsy.
CondValue(t, truthy) == [t |-> t, b |-> truthy, f |-> ""]

\* if (boundCondition)
CondTruthy(c) == c.t = "function" \/ c.b

CondFns == {"startsWithFoo", "identity"}

Conds ==
  {CondBool(TRUE), CondBool(FALSE)} \cup {CondFn(f) : f \in CondFns}
    \cup {CondOther("number"), CondOther("object"), CondOther("undefined")}

----------------------------------------------------------------------------
(* ValidationError                                                         *)

\* Variant of ValidationError: built from the caught error's message.
ValidationError_CauseMessage(message, originalError) ==
  [t |-> "error", name |-> "ValidationError", message |-> originalError.message]

\* new ValidationError(message, originalError): the constructor returns
\* `instance`, an object, so `new` yields instance and drops `this`, on which
\* name and originalError were set.  instance reads name from the prototype.
ValidationError(message, originalError) ==
  LET instance == NewError("Error", message)
      this == [t |-> "error", name |-> "ValidationError",
               originalError |-> originalError]
      proto == [name |-> "ValidationError"]
  IN  [instance EXCEPT !.name = proto.name]

----------------------------------------------------------------------------
(* ValidatorFactory and the methods of an instance.                        *)

\* options = {}
EmptyOptions == [optional |-> "absent"]

\* { optional: true }
OptionalOptions == [optional |-> "true"]

\* Variant of optional: const { optional = true } = options;
optional_DefaultTrue(self) ==
  IF self.options.optional = "absent" THEN TRUE ELSE self.options.optional = "true"

\* const { optional = false } = options;
optional(self) ==
  IF self.options.optional = "absent" THEN FALSE ELSE self.options.optional = "true"

\* ValidatorFactory(x, errs, options): the closure of a new instance, and its
\* property [instanceSymbol]: true.
ValidatorFactory(x, errs, options) ==
  [x |-> x, errs |-> errs, options |-> options, instanceSymbol |-> Bool(TRUE)]

\* No instance: the result slot of a call that threw.
NoObj == ValidatorFactory(Undefined, 0, EmptyOptions)

\* Variant of concat: [item].concat(errs), the new entry in front.
concat_Prepend(h, ref, item) ==
  [arrs |-> Append(h, <<item>> \o h[ref]), ref |-> Len(h) + 1]

\* Variant of concat: errs.push(item), the shared array changed in place.
concat_InPlace(h, ref, item) ==
  [arrs |-> [h EXCEPT ![ref] = Append(h[ref], item)], ref |-> ref]

\* Variant of concat: [item], the earlier entries dropped.
concat_Replace(h, ref, item) == [arrs |-> Append(h, <<item>>), ref |-> Len(h) + 1]

\* errs.concat(item): a new array; an item that is an array contributes its
\* elements, any other item contributes itself.
concat(h, ref, item) ==
  [arrs |-> Append(h, IF item.t = "array" THEN h[ref] \o item.items
                                         ELSE Append(h[ref], item)),
   ref |-> Len(h) + 1]

\* The outcome of a method call: the exception thrown or the instance
\* returned, the array heap afterwards, and the caller's functions that were
\* invoked, in order.
Returned(h, obj, evals) ==
  [threw |-> FALSE, exc |-> Undefined, obj |-> obj, arrs |-> h, evals |-> evals]

Thrown(h, exc, evals) ==
  [threw |-> TRUE, exc |-> exc, obj |-> NoObj, arrs |-> h, evals |-> evals]

\* Variant of selfCall: const self = () => ValidatorFactory(x, errs);
selfCall_DropOptions(self) == ValidatorFactory(self.x, self.errs, EmptyOptions)

\* const self = () => ValidatorFactory(x, errs, options);
selfCall(self) == ValidatorFactory(self.x, self.errs, self.options)

EvTest(f) == [role |-> "test", f |-> f]

EvCond(f) == [role |-> "condition", f |-> f]

\* Variant of assert: the branches of `test(x) ? ... : ...` exchanged.
assert_Swapped(h, self, test, errorMsg, evals) ==
  IF optional(self) /\ IsNil(self.x)
    THEN Returned(h, selfCall(self), evals)
    ELSE LET r == Apply(test, self.x)
             ev == Append(evals, EvTest(test))
         IN  IF r.threw
               THEN LET c == concat(h, self.errs, ValidationError(errorMsg, r.val))
                    IN  Returned(c.arrs, ValidatorFactory(self.x, c.ref, EmptyOptions), ev)
               ELSE IF ~Truthy(r.val)
                      THEN Returned(h, selfCall(self), ev)
                      ELSE LET c == concat(h, self.errs, errorMsg)
                           IN  Returned(c.arrs, ValidatorFactory(self.x, c.ref, EmptyOptions), ev)

\* Variant of assert: the predicate is called again to choose the branch.
assert_Twice(h, self, test, errorMsg, evals) ==
  IF optional(self) /\ IsNil(self.x)
    THEN Returned(h, selfCall(self), evals)
    ELSE LET r == Apply(test, self.x)
             ev == evals \o <<EvTest(test), EvTest(test)>>
         IN  IF r.threw
               THEN LET c == concat(h, self.errs, ValidationError(errorMsg, r.val))
                    IN  Returned(c.arrs, ValidatorFactory(self.x, c.ref, EmptyOptions), ev)
               ELSE IF Truthy(r.val)
                      THEN Returned(h, selfCall(self), ev)
                      ELSE LET c == concat(h, self.errs, errorMsg)
                           IN  Returned(c.arrs, ValidatorFactory(self.x, c.ref, EmptyOptions), ev)

\* assert(test, errorMsg)
assert(h, self, test, errorMsg, evals) ==
  IF optional(self) /\ IsNil(self.x)
    THEN Returned(h, selfCall(self), evals)
    ELSE LET r == Apply(test, self.x)
             ev == Append(evals, EvTest(test))
         IN  IF r.threw
               THEN LET c == concat(h, self.errs, ValidationError(errorMsg, r.val))
                    IN  Returned(c.arrs, ValidatorFactory(self.x, c.ref, EmptyOptions), ev)
               ELSE IF Truthy(r.val)
                      THEN Returned(h, selfCall(self), ev)
                      ELSE LET c == concat(h, self.errs, errorMsg)
                           IN  Returned(c.arrs, ValidatorFactory(self.x, c.ref, EmptyOptions), ev)

\* Variant of assertWhen: the branches of `passed ? ... : ...` exchanged.
assertWhen_Inverted(h, self, condition, test, errorMsg) ==
  CASE condition.t = "function" ->
         LET c == Apply(condition.f, self.x)
             ev == <<EvCond(condition.f)>>
         IN  IF c.threw
               THEN Thrown(h, c.val, ev)
               ELSE IF ~Truthy(c.val)
                      THEN assert(h, self, test, errorMsg, ev)
                      ELSE Returned(h, selfCall(self), ev)
    [] condition.t = "boolean" ->
         IF ~condition.b
           THEN assert(h, self, test, errorMsg, <<>>)
           ELSE Returned(h, selfCall(self), <<>>)
    [] OTHER ->
         Thrown(h, NewError("TypeError", Str("Validator.assertWhen() expects first argument to be boolean or function.")), <<>>)

\* Variant of assertWhen: no default case, passed stays false for a condition
\* that is neither a function nor a boolean.
assertWhen_NoDefault(h, self, condition, test, errorMsg) ==
  CASE condition.t = "function" ->
         LET c == Apply(condition.f, self.x)
             ev == <<EvCond(condition.f)>>
         IN  IF c.threw
               THEN Thrown(h, c.val, ev)
               ELSE IF Truthy(c.val)
                      THEN assert(h, self, test, errorMsg, ev)
                      ELSE Returned(h, selfCall(self), ev)
    [] condition.t = "boolean" ->
         IF condition.b
           THEN assert(h, self, test, errorMsg, <<>>)
           ELSE Returned(h, selfCall(self), <<>>)
    [] OTHER -> Returned(h, selfCall(self), <<>>)

\* Variant of assertWhen: the condition function is called without the value.
assertWhen_NoArgument(h, self, condition, test, errorMsg) ==
  CASE condition.t = "function" ->
         LET c == Apply(condition.f, Undefined)
             ev == <<EvCond(condition.f)>>
         IN  IF c.threw
               THEN Thrown(h, c.val, ev)
               ELSE IF Truthy(c.val)
                      THEN assert(h, self, test, errorMsg, ev)
                      ELSE Returned(h, selfCall(self), ev)
    [] condition.t = "boolean" ->
         IF condition.b
           THEN assert(h, self, test, errorMsg, <<>>)
           ELSE Returned(h, selfCall(self), <<>>)
    [] OTHER ->
         Thrown(h, NewError("TypeError", Str("Validator.assertWhen() expects first argument to be boolean or function.")), <<>>)

\* assertWhen(condition, test, errorMsg)
assertWhen(h, self, condition, test, errorMsg) ==
  CASE condition.t = "function" ->
         LET c == Apply(condition.f, self.x)
             ev == <<EvCond(condition.f)>>
         IN  IF c.threw
               THEN Thrown(h, c.val, ev)
               ELSE IF Truthy(c.val)
                      THEN assert(h, self, test, errorMsg, ev)
                      ELSE Returned(h, selfCall(self), ev)
    [] condition.t = "boolean" ->
         IF condition.b
           THEN assert(h, self, test, errorMsg, <<>>)
           ELSE Returned(h, selfCall(self), <<>>)
    [] OTHER ->
         Thrown(h, NewError("TypeError", Str("Validator.assertWhen() expects first argument to be boolean or function.")), <<>>)

\* Variant of hasFailures: only the plain failure messages are counted.
hasFailures_PlainOnly(h, self) ==
  LET NotError(e) == ~isError(e) IN Len(SelectSeq(h[self.errs], NotError)) > 0

\* hasFailures()
hasFailures(h, self) == Len(h[self.errs]) > 0

\* Variant of hasErrors: any failure counts.
hasErrors_AnyFailure(h, self) == Len(h[self.errs]) > 0

\* hasErrors()
hasErrors(h, self) == Len(SelectSeq(h[self.errs], isError)) > 0

\* Variant of slice: the array itself is returned.
slice_Alias(h, ref) == [arrs |-> h, ref |-> ref]

\* errs.slice(): a new array with the same entries.
slice(h, ref) == [arrs |-> Append(h, h[ref]), ref |-> Len(h) + 1]

\* getFailuresAndErrors(): errs.slice()
getFailuresAndErrors(h, self) == SubSeq(h[self.errs], 1, Len(h[self.errs]))

\* Variant of getFailures: the entries are returned as they are.
getFailures_Raw(h, self) == [i \in 1..Len(h[self.errs]) |-> h[self.errs][i]]

\* getFailures()
getFailures(h, self) ==
  [i \in 1..Len(h[self.errs]) |->
     IF isError(h[self.errs][i]) THEN Str(h[self.errs][i].message) ELSE h[self.errs][i]]

\* Variant of getErrors: nothing is filtered out.
getErrors_All(h, self) == h[self.errs]

\* getErrors()
getErrors(h, self) == SelectSeq(h[self.errs], isError)

----------------------------------------------------------------------------
(* The public constructors.                                                *)

\* Variant of Validator: the array allocated last is used for errs instead of
\* a new empty one.
Validator_Continue(h, x) ==
  IF h = <<>>
    THEN [arrs |-> <<<<>>>>, obj |-> ValidatorFactory(x, 1, EmptyOptions)]
    ELSE [arrs |-> h, obj |-> ValidatorFactory(x, Len(h), EmptyOptions)]

\* Variant of Validator: the instance is optional.
Validator_AsOptional(h, x) ==
  [arrs |-> Append(h, <<>>), obj |-> ValidatorFactory(x, Len(h) + 1, OptionalOptions)]

\* const Validator = x => ValidatorFactory(x);  errs = [] allocates the array.
Validator(h, x) ==
  [arrs |-> Append(h, <<>>), obj |-> ValidatorFactory(x, Len(h) + 1, EmptyOptions)]

\* Validator.Optional: ValidatorFactory(x, undefined, { optional: true })
OptionalValidator(h, x) ==
  [arrs |-> Append(h, <<>>), obj |-> ValidatorFactory(x, Len(h) + 1, OptionalOptions)]

\* typeof of a value of the model: a JavaScript value, a Validator instance, or
\* a BoundValidator function.
TypeOf(v) ==
  IF "t" \in DOMAIN v THEN v.t
  ELSE IF "baseValidator" \in DOMAIN v THEN "function"
  ELSE "object"

\* Variant of isValidator: x != null only.
isValidator_NotNil(v) == TypeOf(v) \notin {"null", "undefined"}

\* Validator.isValidator: x != null && x[instanceSymbol] === true
isValidator(v) ==
  /\ TypeOf(v) \notin {"null", "undefined"}
  /\ Get(v, "instanceSymbol") = Bool(TRUE)

----------------------------------------------------------------------------
(* Bound validators.  A BoundValidator is a function object closing over  *)
(* baseValidator (0 stands for Validator itself, otherwise the index of   *)
(* another BoundValidator) and the three parts of boundAssertion.         *)

\* The third element of a boundAssertion of two elements: undefined.
NoBoundCondition == CondValue("undefined", FALSE)

\* Variant of createBoundValidator: the baseValidator argument is ignored
\* and the default is used.
createBoundValidator_DefaultBase(baseValidator, boundAssertion) ==
  [baseValidator |-> 0,
   boundTest |-> boundAssertion[1],
   boundFailureMessage |-> boundAssertion[2],
   boundCondition |-> IF Len(boundAssertion) >= 3 THEN boundAssertion[3]
                                                 ELSE NoBoundCondition]

\* createBoundValidator({ baseValidator, boundAssertion }): the closure.
createBoundValidator(baseValidator, boundAssertion) ==
  [baseValidator |-> baseValidator,
   boundTest |-> boundAssertion[1],
   boundFailureMessage |-> boundAssertion[2],
   boundCondition |-> IF Len(boundAssertion) >= 3 THEN boundAssertion[3]
                                                 ELSE NoBoundCondition]

\* Variant of withAssert: the assertion is also written into the closure of
\* the base function.
withAssert_Rebind(bnd, base, test, errorMsg) ==
  IF base = 0
    THEN Append(bnd, createBoundValidator(0, <<test, errorMsg>>))
    ELSE Append([bnd EXCEPT ![base].boundTest = test,
                            ![base].boundFailureMessage = errorMsg],
                createBoundValidator(base, <<test, errorMsg>>))

\* Validator.withAssert / BoundValidator.withAssert
withAssert(bnd, base, test, errorMsg) ==
  Append(bnd, createBoundValidator(base, <<test, errorMsg>>))

\* Validator.withAssertWhen / BoundValidator.withAssertWhen
withAssertWhen(bnd, base, condition, test, errorMsg) ==
  Append(bnd, createBoundValidator(base, <<test, errorMsg, condition>>))

\* Variant of boundCall: the bound condition is not passed on.
boundCall_Unconditional(h, self, bv) ==
  assert(h, self, bv.boundTest, bv.boundFailureMessage, <<>>)

\* The body of BoundValidator once baseValidator(x) has returned self.
boundCall(h, self, bv) ==
  IF CondTruthy(bv.boundCondition)
    THEN assertWhen(h, self, bv.boundCondition, bv.boundTest, bv.boundFailureMessage)
    ELSE assert(h, self, bv.boundTest, bv.boundFailureMessage, <<>>)

\* The bound assertion of layer b made on what baseValidator(x) gave, and the
\* record of that call; an exception of baseValidator(x) propagates.
boundLayer(base, bv, b) ==
  IF base.out.threw
    THEN base
    ELSE LET r == boundCall(base.out.arrs, base.out.obj, bv)
         IN  [out |-> [r EXCEPT !.evals = base.out.evals \o r.evals],
              calls |-> Append(base.calls,
                 [test |-> bv.boundTest, msg |-> bv.boundFailureMessage,
                  layer |-> b,
                  applied |-> \E i \in 1..Len(r.evals) : r.evals[i].role = "test"])]

\* BoundValidator(x) for the function bnd[b], Validator(x) for b = 0: the
\* outcome of the call and the assert/assertWhen calls made on the way.
RECURSIVE BoundValidator(_, _, _, _)
BoundValidator(h, bnd, b, x) ==
  IF b = 0
    THEN LET c == Validator(h, x)
         IN  [out |-> Returned(c.arrs, c.obj, <<>>), calls |-> <<>>]
    ELSE boundLayer(BoundValidator(h, bnd, bnd[b].baseValidator, x), bnd[b], b)

----------------------------------------------------------------------------
(* The state machine: a caller that constructs one validator and then     *)
(* calls assert / assertWhen on any instance it holds.  An exception that *)
(* a call lets through is not caught by the caller and ends its run.      *)
(*   heap  the Validator instances allocated so far                       *)
(*   arrs  the errs arrays allocated so far                               *)
(*   hist  for each instance, the assert/assertWhen calls that led to it  *)
(*   last  the latest call and its outcome                                *)
(*   bound the BoundValidator functions created so far                    *)

CallRecord(op, src, cond, test, msg, r, res) ==
  [op |-> op, src |-> src, cond |-> cond, test |-> test, msg |-> msg,
   threw |-> r.threw, exc |-> r.exc, res |-> res, evals |-> r.evals]

Construct(x, opt) ==
  LET c == IF opt THEN OptionalValidator(<<>>, x) ELSE Validator(<<>>, x)
  IN  /\ heap = <<c.obj>>
      /\ arrs = c.arrs
      /\ hist = << <<>> >>
      /\ bound = <<>>
      /\ last = CallRecord(IF opt THEN "Optional" ELSE "Validator", 0, NoCond, "",
                           Undefined, Returned(c.arrs, c.obj, <<>>), 1)

Init == \E x \in Values, opt \in BOOLEAN : Construct(x, opt)

\* The bookkeeping of a call on heap[id] with outcome r.
Outcome(id, op, cond, test, msg, r) ==
  IF r.threw
    THEN /\ UNCHANGED <<heap, hist, bound>>
         /\ arrs' = r.arrs
         /\ last' = CallRecord(op, id, cond, test, msg, r, 0)
    ELSE /\ heap' = Append(heap, r.obj)
         /\ arrs' = r.arrs
         /\ hist' = Append(hist, Append(hist[id],
                       [test |-> test, msg |-> msg, layer |-> 0,
                        applied |-> \E i \in 1..Len(r.evals) : r.evals[i].role = "test"]))
         /\ last' = CallRecord(op, id, cond, test, msg, r, Len(heap) + 1)
         /\ UNCHANGED bound

\* heap[id].assert(test, msg)
CallAssert(id, test, msg) ==
  /\ Len(heap) < MaxObjs
  /\ ~last.threw
  /\ Outcome(id, "assert", NoCond, test, msg, assert(arrs, heap[id], test, msg, <<>>))

\* heap[id].assertWhen(cond, test, msg)
CallAssertWhen(id, cond, test, msg) ==
  /\ Len(heap) < MaxObjs
  /\ ~last.threw
  /\ Outcome(id, "assertWhen", cond, test, msg, assertWhen(arrs, heap[id], cond, test, msg))

Next ==
  \/ \E id \in 1..Len(heap), test \in Preds, msg \in Msgs : CallAssert(id, test, msg)
  \/ \E id \in 1..Len(heap), cond \in Conds, test \in Preds, msg \in Msgs :
       CallAssertWhen(id, cond, test, msg)

Spec == Init /\ [][Next]_vars

----------------------------------------------------------------------------
(* The operations on BoundValidators as steps of a caller.  The instances *)
(* a BoundValidator creates on the way and does not return are not kept   *)
(* in heap.                                                               *)

BoundRecord(op, src, cond, test, msg, r, res, arg) ==
  [op |-> op, src |-> src, cond |-> cond, test |-> test, msg |-> msg,
   threw |-> r.threw, exc |-> r.exc, res |-> res, evals |-> r.evals, arg |-> arg]

\* Nothing constructed yet.
InitBound ==
  /\ heap = <<>>
  /\ arrs = <<>>
  /\ hist = <<>>
  /\ bound = <<>>
  /\ last = BoundRecord("none", 0, NoCond, "", Undefined, Returned(<<>>, NoObj, <<>>), 0, Undefined)

\* Validator.withAssert(test, msg) for base = 0, bound[base].withAssert(test, msg) otherwise
CallWithAssert(base, test, msg) ==
  /\ ~last.threw
  /\ bound' = withAssert(bound, base, test, msg)
  /\ last' = BoundRecord("withAssert", base, NoBoundCondition, test, msg,
                          Returned(arrs, NoObj, <<>>), Len(bound') , Undefined)
  /\ UNCHANGED <<heap, arrs, hist>>

\* Validator.withAssertWhen(cond, test, msg) / bound[base].withAssertWhen(cond, test, msg)
CallWithAssertWhen(base, cond, test, msg) ==
  /\ ~last.threw
  /\ bound' = withAssertWhen(bound, base, cond, test, msg)
  /\ last' = BoundRecord("withAssertWhen", base, cond, test, msg,
                          Returned(arrs, NoObj, <<>>), Len(bound'), Undefined)
  /\ UNCHANGED <<heap, arrs, hist>>

\* bound[b](x), and Validator(x) for b = 0
CallBound(b, x) ==
  /\ ~last.threw
  /\ LET r == BoundValidator(arrs, bound, b, x)
     IN  /\ arrs' = r.out.arrs
         /\ IF r.out.threw
              THEN /\ UNCHANGED <<heap, hist>>
                   /\ last' = BoundRecord("call", b, NoCond, "", Undefined, r.out, 0, x)
              ELSE /\ heap' = Append(heap, r.out.obj)
                   /\ hist' = Append(hist, r.calls)
                   /\ last' = BoundRecord("call", b, NoCond, "", Undefined, r.out,
                                           Len(heap) + 1, x)
  /\ UNCHANGED bound

\* heap[id].assert(test, msg)
CallAssertHeld(id, test, msg) ==
  /\ ~last.threw
  /\ Outcome(id, "assert", NoCond, test, msg, assert(arrs, heap[id], test, msg, <<>>))

\* The assertions the callers bind: a predicate and its failure message.
BoundAssertions == {<<"isString", Str("s")>>, <<"startsWithFoo", Str("n")>>}

----------------------------------------------------------------------------
(* SpecBound: a caller that builds BoundValidators with withAssert and    *)
(* withAssertWhen, each on Validator or on any BoundValidator it has, and *)
(* then calls one of them on a value.  Function conditions are left to    *)
(* SpecCard.                                                              *)

\* Bound on the number of BoundValidators created.
MaxBound == 3

BoundValues == {Num("1"), Str("foo")}

\* true, false, 1 and 0
BoundConds ==
  {CondBool(TRUE), CondBool(FALSE), CondValue("number", TRUE), CondValue("number", FALSE)}

\* The assertion the unconditional layers bind, and the one the conditional
\* layers bind.
PlainAssertions == {<<"startsWithFoo", Str("n")>>}

WhenAssertions == {<<"isString", Str("s")>>}

NextBound ==
  \/ \E base \in 0..Len(bound), a \in PlainAssertions :
       /\ Len(bound) < MaxBound
       /\ heap = <<>>
       /\ CallWithAssert(base, a[1], a[2])
  \/ \E base \in 0..Len(bound), cond \in BoundConds, a \in WhenAssertions :
       /\ Len(bound) < MaxBound
       /\ heap = <<>>
       /\ CallWithAssertWhen(base, cond, a[1], a[2])
  \/ \E b \in 1..Len(bound), x \in BoundValues :
       /\ heap = <<>>
       /\ CallBound(b, x)

SpecBound == InitBound /\ [][NextBound]_vars

----------------------------------------------------------------------------
(* SpecChain: a caller that stacks withAssert layers, starts chains by    *)
(* calling BoundValidators or Validator on values, and extends the chains *)
(* it holds with assert, in any order.                                    *)

\* Bound on the number of objects the caller creates: BoundValidators and
\* instances together.
MaxChain == 4

ChainValues == {Num("1"), Str("foo")}

NextChain ==
  \/ \E base \in 0..Len(bound), a \in BoundAssertions :
       /\ Len(bound) + Len(heap) < MaxChain
       /\ CallWithAssert(base, a[1], a[2])
  \/ \E b \in 0..Len(bound), x \in ChainValues :
       /\ Len(bound) + Len(heap) < MaxChain
       /\ CallBound(b, x)
  \/ \E id \in 1..Len(heap), a \in BoundAssertions :
       /\ Len(bound) + Len(heap) < MaxChain
       /\ CallAssertHeld(id, a[1], a[2])

SpecChain == InitBound /\ [][NextChain]_vars

----------------------------------------------------------------------------
(* SpecCard: a caller that builds a validator of the shape of the README's *)
(* CreditCardNumberValidator, withAssert(isString, m) followed by          *)
(* withAssertWhen layers with function conditions, and calls it on a value.*)

\* Bound on the number of withAssertWhen layers.
MaxBranches == 2

CardValues == {Null, Num("1"), Str("foo"), Str("bar"), Str("baz")}

CardConds == {CondFn("startsWithFoo"), CondFn("startsWithBar")}

CardTests == {"isString", "startsWithFoo", "startsWithBar"}

NextCard ==
  \/ \E msg \in Msgs :
       /\ bound = <<>>
       /\ CallWithAssert(0, "isString", msg)
  \/ \E cond \in CardConds, test \in CardTests, msg \in Msgs :
       /\ bound # <<>>
       /\ Len(bound) < MaxBranches + 1
       /\ heap = <<>>
       /\ CallWithAssertWhen(Len(bound), cond, test, msg)
  \/ \E b \in 1..Len(bound), x \in CardValues :
       /\ heap = <<>>
       /\ CallBound(b, x)

SpecCard == InitBound /\ [][NextCard]_vars

----------------------------------------------------------------------------
(* SpecCopy: a caller that constructs validators, extends them with       *)
(* assert, takes the array getFailuresAndErrors() returns and changes     *)
(* that array: push, pop and reverse.                                     *)

\* Bound on the number of arrays allocated, on the instances held and on the
\* length the caller gives an array.
MaxArrs == 4

CopyValues == {Num("1")}

\* What the caller does to an array it holds.
Mutations == {"push", "pop", "reverse"}

\* heap[id].getFailuresAndErrors(): last.res is the array returned.
CallGetFailuresAndErrors(id) ==
  /\ ~last.threw
  /\ LET c == slice(arrs, heap[id].errs)
     IN  /\ arrs' = c.arrs
         /\ last' = BoundRecord("getFailuresAndErrors", id, NoCond, "", Undefined,
                                 Returned(c.arrs, NoObj, <<>>), c.ref, Undefined)
  /\ UNCHANGED <<heap, hist, bound>>

\* The caller changes the array the latest getFailuresAndErrors() returned.
MutateReturned(kind) ==
  /\ last.op \in {"getFailuresAndErrors"} \cup Mutations
  /\ LET a == arrs[last.res]
     IN  CASE kind = "push" ->
                /\ Len(a) < MaxArrs
                /\ arrs' = [arrs EXCEPT ![last.res] = Append(a, Str("x"))]
           [] kind = "pop" ->
                /\ a # <<>>
                /\ arrs' = [arrs EXCEPT ![last.res] = SubSeq(a, 1, Len(a) - 1)]
           [] kind = "reverse" ->
                /\ Len(a) >= 2
                /\ arrs' = [arrs EXCEPT ![last.res] = [i \in 1..Len(a) |-> a[Len(a) + 1 - i]]]
  /\ last' = [last EXCEPT !.op = kind]
  /\ UNCHANGED <<heap, hist, bound>>

NextCopy ==
  \/ \E x \in CopyValues :
       /\ Len(arrs) < MaxArrs
       /\ Len(heap) < MaxArrs
       /\ CallBound(0, x)
  \/ \E id \in 1..Len(heap), a \in BoundAssertions :
       /\ Len(arrs) < MaxArrs
       /\ Len(heap) < MaxArrs
       /\ CallAssertHeld(id, a[1], a[2])
  \/ \E id \in 1..Len(heap) :
       /\ Len(arrs) < MaxArrs
       /\ CallGetFailuresAndErrors(id)
  \/ \E kind \in Mutations : MutateReturned(kind)

SpecCopy == InitBound /\ [][NextCopy]_vars

----------------------------------------------------------------------------
(* SpecMixed: a caller that uses the whole interface: both constructors,  *)
(* withAssert and withAssertWhen layers, invocations of BoundValidators,  *)
(* and assert / assertWhen on the instances it holds.                     *)

\* Bound on the number of objects the caller creates: BoundValidators and
\* instances together.
MaxMixed == 3

MixedValues == {Null, Undefined, Str("foo")}

MixedConds == {CondFn(f) : f \in CondFns}

\* Validator(x) or Validator.Optional(x)
CallConstruct(x, opt) ==
  /\ ~last.threw
  /\ LET c == IF opt THEN OptionalValidator(arrs, x) ELSE Validator(arrs, x)
     IN  /\ heap' = Append(heap, c.obj)
         /\ arrs' = c.arrs
         /\ hist' = Append(hist, <<>>)
         /\ last' = BoundRecord(IF opt THEN "Optional" ELSE "Validator", 0, NoCond, "",
                                 Undefined, Returned(c.arrs, c.obj, <<>>), Len(heap) + 1, x)
  /\ UNCHANGED bound

\* heap[id].assertWhen(cond, test, msg)
CallAssertWhenHeld(id, cond, test, msg) ==
  /\ ~last.threw
  /\ Outcome(id, "assertWhen", cond, test, msg, assertWhen(arrs, heap[id], cond, test, msg))

NextMixed ==
  \/ \E x \in MixedValues, opt \in BOOLEAN :
       /\ Len(bound) + Len(heap) < MaxMixed
       /\ CallConstruct(x, opt)
  \/ \E base \in 0..Len(bound), a \in BoundAssertions :
       /\ Len(bound) + Len(heap) < MaxMixed
       /\ CallWithAssert(base, a[1], a[2])
  \/ \E base \in 0..Len(bound), cond \in MixedConds, a \in BoundAssertions :
       /\ Len(bound) + Len(heap) < MaxMixed
       /\ CallWithAssertWhen(base, cond, a[1], a[2])
  \/ \E b \in 1..Len(bound), x \in MixedValues :
       /\ Len(bound) + Len(heap) < MaxMixed
       /\ CallBound(b, x)
  \/ \E id \in 1..Len(heap), a \in BoundAssertions :
       /\ Len(bound) + Len(heap) < MaxMixed
       /\ CallAssertHeld(id, a[1], a[2])
  \/ \E id \in 1..Len(heap), cond \in MixedConds, a \in BoundAssertions :
       /\ Len(bound) + Len(heap) < MaxMixed
       /\ CallAssertWhenHeld(id, cond, a[1], a[2])

SpecMixed == InitBound /\ [][NextMixed]_vars

----------------------------------------------------------------------------
(* SpecMsg: a caller whose failure messages are not all strings: a string, *)
(* a number, the empty array and an array of two strings.                 *)

\* Bound on the number of instances.
MaxMsgs == 3

MsgValues == {Num("1"), Str("foo")}

\* 's', 0, [] and ['a', 'b']
AnyMsgs == {Str("s"), Num("0"), Arr(<<>>, ""), Arr(<<Str("a"), Str("b")>>, "a,b")}

MsgTests == {"isString", "startsWithFoo"}

NextMsg ==
  \/ \E x \in MsgValues, opt \in BOOLEAN :
       /\ Len(heap) < MaxMsgs
       /\ CallConstruct(x, opt)
  \/ \E id \in 1..Len(heap), test \in MsgTests, msg \in AnyMsgs :
       /\ Len(heap) < MaxMsgs
       /\ CallAssertHeld(id, test, msg)

SpecMsg == InitBound /\ [][NextMsg]_vars

----------------------------------------------------------------------------
(* Vocabulary of the properties.                                           *)

\* The instance the latest call was made on, and the instance it returned.
Src == heap[last.src]

Res == heap[last.res]

\* The failures list of an instance.
ErrsOf(self) == arrs[self.errs]

\* The latest call was a method call that returned an instance.
ReturnedFrom(op) == last.op = op /\ ~last.threw /\ last.res # 0

\* The instance skips its assertions: optional with a nil value.
Skips(self) == self.options = OptionalOptions /\ self.x.t \in {"null", "undefined"}

\* What the predicate does on the wrapped value.
Raises(test, x) == Apply(test, x).threw

Passes(test, x) == ~Apply(test, x).threw /\ Truthy(Apply(test, x).val)

Fails(test, x) == ~Apply(test, x).threw /\ ~Truthy(Apply(test, x).val)

IsPrefix(s, t) == Len(s) <= Len(t) /\ SubSeq(t, 1, Len(s)) = s

\* The result carries the failures of the source followed by one wrapped
\* error whose message is the supplied one.
WrappedErrorAppended ==
  /\ ReturnedFrom("assert")
  /\ Len(ErrsOf(Res)) = Len(ErrsOf(Src)) + 1
  /\ SubSeq(ErrsOf(Res), 1, Len(ErrsOf(Src))) = ErrsOf(Src)
  /\ isError(ErrsOf(Res)[Len(ErrsOf(Res))])
  /\ ErrsOf(Res)[Len(ErrsOf(Res))].message = last.msg.v
  /\ hasFailures(arrs, Res)
  /\ hasErrors(arrs, Res)
  /\ getFailures(arrs, Res)[Len(getFailures(arrs, Res))] = last.msg

----------------------------------------------------------------------------
\* C1 (as stated): on every validator state, assert with a predicate that
\* raises on the value returns the previous failures followed by one wrapped
\* error with message m.
C1_EveryStateWraps ==
  (last.op = "assert" /\ Raises(last.test, Src.x)) => WrappedErrorAppended

\* C1 (amended): unless the validator is optional with a nil value, assert
\* with a predicate that raises on the value does not propagate the
\* exception and returns the previous failures followed by exactly one
\* wrapped error with message m, so hasFailures() and hasErrors() are true and
\* getFailures() ends with m; on an optional validator with a nil value the
\* call returns the failures unchanged.
C1_RaisingPredicateWrapped ==
  (last.op = "assert" /\ Raises(last.test, Src.x)) =>
     IF Skips(Src)
       THEN ReturnedFrom("assert") /\ ErrsOf(Res) = ErrsOf(Src)
       ELSE WrappedErrorAppended

C1_Witness ==
  /\ ReturnedFrom("assert")
  /\ Raises(last.test, Src.x)
  /\ ~Skips(Src)
  /\ Len(ErrsOf(Src)) = 1
  /\ Len(ErrsOf(Res)) = 2

\* C2: for Validator(v) and a predicate that raises e on v, the wrapped error
\* recorded by assert(p, m) has originalError e and message m.
C2_OriginalErrorKept ==
  (ReturnedFrom("assert") /\ last.src = 1 /\ Src.options = EmptyOptions
     /\ Raises(last.test, Src.x)) =>
     /\ Len(getErrors(arrs, Res)) = 1
     /\ getErrors(arrs, Res)[1].message = last.msg.v
     /\ Get(getErrors(arrs, Res)[1], "originalError") = Apply(last.test, Src.x).val

\* C3: a non-skipped assert whose predicate does not raise leaves the failures
\* as they were when the predicate passes and appends the plain message m when
\* it fails; on a fresh Validator(v) this gives hasFailures() false and
\* getFailures() = [m].
C3_PassKeepsFailAppends ==
  (last.op = "assert" /\ ~Skips(Src) /\ ~Raises(last.test, Src.x)) =>
     /\ ReturnedFrom("assert")
     /\ Passes(last.test, Src.x) => ErrsOf(Res) = ErrsOf(Src)
     /\ Fails(last.test, Src.x) => ErrsOf(Res) = Append(ErrsOf(Src), last.msg)
     /\ (last.src = 1 /\ Passes(last.test, Src.x)) => ~hasFailures(arrs, Res)
     /\ (last.src = 1 /\ Fails(last.test, Src.x)) => getFailures(arrs, Res) = <<last.msg>>

C3_Witness ==
  /\ ReturnedFrom("assert")
  /\ ~Skips(Src)
  /\ Fails(last.test, Src.x)
  /\ Len(ErrsOf(Src)) = 1
  /\ ErrsOf(Res) = Append(ErrsOf(Src), last.msg)

\* The messages, in call order, of the calls of a chain on value x that applied
\* their predicate and whose predicate returned a falsy value or raised.
FailedMsgs(calls, x) ==
  LET NotPassed(c) == c.applied /\ ~Passes(c.test, x)
      failed == SelectSeq(calls, NotPassed)
  IN  [i \in 1..Len(failed) |-> failed[i].msg]

\* C4: getFailures() of every validator is the subsequence, in call order, of
\* the messages of the applied assertions of its chain whose predicate
\* returned false or raised.
C4_FailuresInCallOrder ==
  \A id \in 1..Len(heap) :
     getFailures(arrs, heap[id]) = FailedMsgs(hist[id], heap[id].x)

C4_Witness ==
  \E id \in 1..Len(heap) :
     /\ Len(hist[id]) = 2
     /\ Fails(hist[id][1].test, heap[id].x)
     /\ Raises(hist[id][2].test, heap[id].x)
     /\ getFailures(arrs, heap[id]) = <<Str("s"), Str("n")>>

\* Everything the queries of an instance return.
Queries(h, self) ==
  <<hasFailures(h, self), hasErrors(h, self), getFailuresAndErrors(h, self),
    getFailures(h, self), getErrors(h, self)>>

\* C5: no assert/assertWhen call changes what the queries of an existing
\* validator return; two calls with the same arguments on the same validator
\* give results with equal failures, and the constructed validator keeps
\* empty failures.
C5_NoMutation ==
  /\ [][\A id \in 1..Len(heap) :
          /\ heap'[id] = heap[id]
          /\ Queries(arrs', heap'[id]) = Queries(arrs, heap[id])]_vars
  /\ [](\A i, j \in 1..Len(heap) :
          hist[i] = hist[j] => ErrsOf(heap[i]) = ErrsOf(heap[j]))
  /\ [](Queries(arrs, heap[1]) = <<FALSE, FALSE, <<>>, <<>>, <<>> >>)

C5_Witness ==
  /\ Len(heap) = 3
  /\ Len(hist[2]) = 1
  /\ hist[3] = hist[2]
  /\ hasErrors(arrs, heap[2])
  /\ last.src = 1

\* C6: the failures of a validator are a prefix of the failures of every
\* validator derived from it, and a validator reached after N calls has at
\* most N entries.
C6_FailuresOnlyGrow ==
  /\ (last.op \in {"assert", "assertWhen"} /\ ~last.threw) =>
        IsPrefix(ErrsOf(Src), ErrsOf(Res))
  /\ \A i, j \in 1..Len(heap) :
        IsPrefix(hist[i], hist[j]) => IsPrefix(ErrsOf(heap[i]), ErrsOf(heap[j]))
  /\ \A id \in 1..Len(heap) : Len(ErrsOf(heap[id])) <= Len(hist[id])

C6_Witness ==
  /\ ReturnedFrom("assertWhen")
  /\ Len(ErrsOf(Src)) = 1
  /\ Len(ErrsOf(Res)) = 2
  /\ ErrsOf(Res)[1] = ErrsOf(Src)[1]
  /\ ErrsOf(Res)[1] # ErrsOf(Res)[2]

\* The failures an assert(test, msg) call on the instance returns.
AssertErrs(self, test, msg) ==
  LET r == assert(arrs, self, test, msg, <<>>)
  IN  r.arrs[r.obj.errs]

\* C7: every validator derived from Validator.Optional(v) with v null or
\* undefined has no failures: hasFailures() is false and the three lists are
\* empty, whatever the predicates of the chain do.
C7_OptionalNilNeverFails ==
  Skips(heap[1]) =>
     \A id \in 1..Len(heap) :
        /\ ~hasFailures(arrs, heap[id])
        /\ getFailuresAndErrors(arrs, heap[id]) = <<>>
        /\ getFailures(arrs, heap[id]) = <<>>
        /\ getErrors(arrs, heap[id]) = <<>>

C7_Witness ==
  /\ Skips(heap[1])
  /\ heap[1].x = Undefined
  /\ Len(heap) = 3
  /\ Len(hist[3]) = 2
  /\ Fails(hist[3][1].test, heap[1].x)
  /\ Raises(hist[3][2].test, heap[1].x)
  /\ last.op = "assertWhen"
  /\ last.cond = CondBool(TRUE)

\* C8: on an optional validator with a nil value, assertWhen with a function
\* condition raises nothing and returns the same failures, whatever the
\* condition does on the nil value.
C8_FunctionConditionSkipped ==
  (last.op = "assertWhen" /\ last.cond.t = "function" /\ Skips(Src)) =>
     /\ ReturnedFrom("assertWhen")
     /\ ErrsOf(Res) = ErrsOf(Src)

\* C9: an optional validator with a non-nil value records, on every assert and
\* assertWhen call, the failures a non-optional validator in the same state
\* records; and a non-optional validator with a nil value evaluates its
\* predicates and records their failures.
C9_ShortCircuitOnlyOptionalNil ==
  /\ (ReturnedFrom("assert") /\ ~IsNil(Src.x)) =>
        /\ last.evals = <<EvTest(last.test)>>
        /\ ErrsOf(Res) = AssertErrs([Src EXCEPT !.options = EmptyOptions], last.test, last.msg)
        /\ ErrsOf(Res) = AssertErrs([Src EXCEPT !.options = OptionalOptions], last.test, last.msg)
  /\ (ReturnedFrom("assertWhen") /\ ~IsNil(Src.x)) =>
        LET r == assertWhen(arrs, [Src EXCEPT !.options = EmptyOptions],
                            last.cond, last.test, last.msg)
            o == assertWhen(arrs, [Src EXCEPT !.options = OptionalOptions],
                            last.cond, last.test, last.msg)
        IN  /\ ErrsOf(Res) = r.arrs[r.obj.errs]
            /\ ErrsOf(Res) = o.arrs[o.obj.errs]
  /\ (ReturnedFrom("assert") /\ IsNil(Src.x) /\ heap[1].options = EmptyOptions) =>
        /\ last.evals = <<EvTest(last.test)>>
        /\ ~Passes(last.test, Src.x) => Len(ErrsOf(Res)) = Len(ErrsOf(Src)) + 1
        /\ Fails(last.test, Src.x) => ErrsOf(Res) = Append(ErrsOf(Src), last.msg)

C9_Witness ==
  /\ ReturnedFrom("assert")
  /\ heap[1].options = OptionalOptions
  /\ ~IsNil(Src.x)
  /\ Len(ErrsOf(Res)) = 2
  /\ isError(ErrsOf(Res)[2])

\* C10: assertWhen(true, p, m) returns the failures assert(p, m) returns on the
\* same validator, the optional short-circuit included; assertWhen(false, p, m)
\* returns the failures unchanged and does not evaluate p, on optional and
\* non-optional validators alike.
C10_BooleanCondition ==
  /\ (last.op = "assertWhen" /\ last.cond = CondBool(TRUE)) =>
        /\ ReturnedFrom("assertWhen")
        /\ ErrsOf(Res) = AssertErrs(Src, last.test, last.msg)
        /\ last.evals = assert(arrs, Src, last.test, last.msg, <<>>).evals
  /\ (last.op = "assertWhen" /\ last.cond = CondBool(FALSE)) =>
        /\ ReturnedFrom("assertWhen")
        /\ ErrsOf(Res) = ErrsOf(Src)
        /\ last.evals = <<>>

C10_Witness ==
  /\ ReturnedFrom("assertWhen")
  /\ last.cond = CondBool(FALSE)
  /\ Raises(last.test, Src.x)
  /\ Len(ErrsOf(Src)) = 1
  /\ ~Skips(Src)

\* C11: for a function condition fn that returns without raising,
\* assertWhen(fn, p, m) gives the failures of assert(p, m) when fn(v) holds
\* and unchanged failures otherwise, fn being applied once to the wrapped
\* value v.  fn(v) holds when its result is true (for a result that is not a
\* boolean: when `passed ? ... : ...` takes it for true).
C11_FunctionCondition ==
  (last.op = "assertWhen" /\ last.cond.t = "function"
     /\ ~Raises(last.cond.f, Src.x)) =>
     /\ ReturnedFrom("assertWhen")
     /\ last.evals[1] = EvCond(last.cond.f)
     /\ Passes(last.cond.f, Src.x) =>
           /\ ErrsOf(Res) = AssertErrs(Src, last.test, last.msg)
           /\ last.evals = assert(arrs, Src, last.test, last.msg, <<EvCond(last.cond.f)>>).evals
     /\ Fails(last.cond.f, Src.x) =>
           /\ ErrsOf(Res) = ErrsOf(Src)
           /\ last.evals = <<EvCond(last.cond.f)>>

C11_Witness ==
  /\ ReturnedFrom("assertWhen")
  /\ last.cond = CondFn("identity")
  /\ Src.x = Num("1")
  /\ Fails(last.test, Src.x)
  /\ Len(ErrsOf(Res)) = Len(ErrsOf(Src)) + 1
  /\ Len(ErrsOf(Src)) = 1

\* C12: assertWhen with a condition that is neither a boolean nor a function
\* throws a TypeError to the caller on every validator: no instance is
\* returned, no predicate is evaluated, and no instance or failures list is
\* added or changed.
C12_InvalidConditionThrows ==
  [][(last'.op = "assertWhen" /\ last'.cond.t \notin {"boolean", "function"}) =>
       /\ last'.threw
       /\ last'.exc.t = "error"
       /\ last'.exc.name = "TypeError"
       /\ last'.res = 0
       /\ last'.evals = <<>>
       /\ heap' = heap
       /\ arrs' = arrs]_vars

C12_Witness ==
  /\ last.op = "assertWhen"
  /\ last.cond = CondOther("object")
  /\ last.threw
  /\ last.src = 2
  /\ Skips(heap[1])
  /\ Len(heap) = 2

\* C20: hasFailures() of every validator is true exactly when its failures
\* list is non-empty, which is exactly when some applied assertion of its
\* chain had a predicate that returned false or raised.
C20_HasFailures ==
  \A id \in 1..Len(heap) :
     /\ hasFailures(arrs, heap[id]) <=> ErrsOf(heap[id]) # <<>>
     /\ hasFailures(arrs, heap[id]) <=>
          \E i \in 1..Len(hist[id]) :
             hist[id][i].applied /\ ~Passes(hist[id][i].test, heap[id].x)

C20_Witness ==
  \E i, j \in 1..Len(heap) :
     /\ Len(hist[i]) = 2
     /\ hasFailures(arrs, heap[i])
     /\ hasErrors(arrs, heap[i])
     /\ Len(ErrsOf(heap[i])) = 1
     /\ Len(hist[j]) = 1
     /\ hist[j][1].applied
     /\ ~hasFailures(arrs, heap[j])

----------------------------------------------------------------------------
\* The (predicate, message) pairs of a sequence of calls.
Assertions(calls) == [i \in 1..Len(calls) |-> <<calls[i].test, calls[i].msg>>]

\* Validator(x).assert(p1, m1)....assert(pn, mn) for the assertions of calls.
RECURSIVE ManualChain(_, _)
ManualChain(x, calls) ==
  IF calls = <<>>
    THEN Validator(<<>>, x)
    ELSE LET prev == ManualChain(x, SubSeq(calls, 1, Len(calls) - 1))
             r == assert(prev.arrs, prev.obj, calls[Len(calls)].test,
                         calls[Len(calls)].msg, <<>>)
         IN  [arrs |-> r.arrs, obj |-> r.obj]

\* C13: the validator returned by B.withAssert(p, m) makes, on every value,
\* the assertions B makes followed by (p, m), Validator.withAssert(p, m) makes
\* (p, m) alone; invoking a BoundValidator evaluates the predicates of its
\* layers base first; and every instance obtained by invoking a BoundValidator
\* on x and then calling assert has the getFailuresAndErrors() and
\* getFailures() of Validator(x) followed by the same assertions made with
\* assert, in the same order.
C13_BoundEqualsManual ==
  /\ last.op = "withAssert" =>
        \A x \in ChainValues :
           Assertions(BoundValidator(<<>>, bound, last.res, x).calls)
             = Append(Assertions(BoundValidator(<<>>, bound, last.src, x).calls),
                      <<last.test, last.msg>>)
  /\ (last.op = "call" /\ ~last.threw) =>
        [i \in 1..Len(last.evals) |-> last.evals[i].f]
          = [i \in 1..Len(hist[last.res]) |-> hist[last.res][i].test]
  /\ \A id \in 1..Len(heap) :
        LET m == ManualChain(heap[id].x, hist[id])
        IN  /\ getFailuresAndErrors(arrs, heap[id]) = getFailuresAndErrors(m.arrs, m.obj)
            /\ getFailures(arrs, heap[id]) = getFailures(m.arrs, m.obj)

\* A validator of two layers invoked on 1 and extended with one assert: both
\* layers and the assert have recorded their failure, the base layer first.
C13_Witness ==
  \E id \in 1..Len(heap) :
     /\ Len(hist[id]) = 3
     /\ hist[id][1].layer # 0
     /\ hist[id][2].layer # 0
     /\ bound[hist[id][2].layer].baseValidator = hist[id][1].layer
     /\ hist[id][3].layer = 0
     /\ hist[id][1].test # hist[id][2].test
     /\ Len(getFailures(arrs, heap[id])) = 3
     /\ hasErrors(arrs, heap[id])

----------------------------------------------------------------------------
\* The BoundValidator the latest call invoked, and what its base returns on
\* the same value.
Called == bound[last.src]

BaseOut == BoundValidator(<<>>, bound, Called.baseValidator, last.arg).out

\* The failures of the instance an outcome carries.
OutErrs(r) == r.arrs[r.obj.errs]

\* C14 (as stated): invoking a BoundValidator made by withAssertWhen(false,
\* p, m), on Validator or on any BoundValidator, returns the failures of the
\* base alone, and one made by withAssertWhen(true, p, m) returns what
\* assert(p, m) gives on the instance of the base.
C14_BooleanConditionBound ==
  (last.op = "call" /\ Called.boundCondition.t = "boolean" /\ ~BaseOut.threw) =>
     /\ ~last.threw
     /\ ErrsOf(heap[last.res]) =
          IF Called.boundCondition.b
            THEN OutErrs(assert(BaseOut.arrs, BaseOut.obj, Called.boundTest,
                                Called.boundFailureMessage, <<>>))
            ELSE OutErrs(BaseOut)

\* C15 (as stated): invoking a BoundValidator made by withAssertWhen with a
\* condition that is neither a boolean nor a function raises a TypeError.
C15_InvalidConditionBoundThrows ==
  (last.op = "call" /\ Called.boundCondition.t = "number" /\ ~BaseOut.threw) =>
     /\ last.threw
     /\ last.exc.t = "error"
     /\ last.exc.name = "TypeError"

----------------------------------------------------------------------------
\* What invoking bnd[b] on x gives when the arrays allocated so far are h: the
\* assert/assertWhen calls made, and the exception or the failures of the
\* returned instance.
BoundResult(h, bnd, b, x) ==
  LET r == BoundValidator(h, bnd, b, x)
  IN  IF r.out.threw
        THEN <<"raised", r.out.exc, Assertions(r.calls)>>
        ELSE <<"returned", getFailuresAndErrors(r.out.arrs, r.out.obj), Assertions(r.calls)>>

\* The assert/assertWhen calls bound[b] makes on x.
CallsOf(b, x) == Assertions(BoundValidator(<<>>, bound, b, x).calls)

Front(s) == SubSeq(s, 1, Len(s) - 1)

\* C16: no withAssert, withAssertWhen or invocation step changes what an
\* existing BoundValidator does on any value, neither the calls it makes nor
\* the failures or exception it gives; and the validator a withAssert or
\* withAssertWhen call on B returns makes B's calls followed by the call of the
\* new layer.  Validators derived from the same B therefore each make B's
\* calls followed by only their own.
C16_BaseUnchanged ==
  /\ [][\A b \in 1..Len(bound), x \in BoundValues :
          /\ b <= Len(bound')
          /\ BoundResult(arrs', bound', b, x) = BoundResult(arrs, bound, b, x)]_vars
  /\ []((last.op \in {"withAssert", "withAssertWhen"}) =>
          \A x \in BoundValues :
             (last.src = 0 \/ BoundResult(arrs, bound, last.src, x)[1] = "returned") =>
                CallsOf(last.res, x) = Append(CallsOf(last.src, x), <<last.test, last.msg>>))

\* Two validators derived from the same BoundValidator with different
\* assertions, one of them invoked on 1: the result has the failure of the
\* base and the failure of the invoked layer.
C16_Witness ==
  /\ Len(bound) = 3
  /\ bound[2].baseValidator = 1
  /\ bound[3].baseValidator = 1
  /\ bound[2].boundTest # bound[3].boundTest
  /\ bound[1].boundTest # bound[3].boundTest
  /\ last.op = "call"
  /\ last.src = 3
  /\ ~last.threw
  /\ Len(ErrsOf(heap[last.res])) = 2

----------------------------------------------------------------------------
\* The BoundValidator whose invocation started the chain (0: Validator), and
\* the assert calls made on the chain since.
Origin(calls) ==
  LET layered == SelectSeq(calls, LAMBDA c : c.layer # 0)
  IN  IF layered = <<>> THEN 0 ELSE layered[Len(layered)].layer

Extension(calls) == SelectSeq(calls, LAMBDA c : c.layer = 0)

\* The chain run with nothing else allocated: the invocation, then the asserts.
RECURSIVE RunAlone(_, _, _)
RunAlone(b, x, ext) ==
  IF ext = <<>>
    THEN LET r == BoundValidator(<<>>, bound, b, x).out
         IN  [arrs |-> r.arrs, obj |-> r.obj]
    ELSE LET prev == RunAlone(b, x, Front(ext))
             r == assert(prev.arrs, prev.obj, ext[Len(ext)].test, ext[Len(ext)].msg, <<>>)
         IN  [arrs |-> r.arrs, obj |-> r.obj]

\* C17: every instance, whatever was invoked or extended before or in between,
\* has the failures its chain has when run alone: those of invoking its
\* BoundValidator on its value with nothing else allocated, followed by its
\* assert calls; two chains of the same calls on the same value have equal
\* failures; and no step changes what an existing instance returns.
C17_FreshChain ==
  /\ [](\A id \in 1..Len(heap) :
          LET alone == RunAlone(Origin(hist[id]), heap[id].x, Extension(hist[id]))
          IN  Queries(arrs, heap[id]) = Queries(alone.arrs, alone.obj))
  /\ [](\A i, j \in 1..Len(heap) :
          (hist[i] = hist[j] /\ heap[i].x = heap[j].x) =>
             Queries(arrs, heap[i]) = Queries(arrs, heap[j]))
  /\ [][\A id \in 1..Len(heap) :
          /\ heap'[id] = heap[id]
          /\ Queries(arrs', heap'[id]) = Queries(arrs, heap[id])]_vars

\* Two chains started by the same BoundValidator on different values, the
\* first extended with a failing assert after the second was started.
C17_Witness ==
  /\ Len(heap) = 3
  /\ Origin(hist[1]) # 0
  /\ Origin(hist[2]) = Origin(hist[1])
  /\ heap[1].x # heap[2].x
  /\ last.op = "assert"
  /\ last.src = 1
  /\ Len(ErrsOf(heap[3])) = Len(ErrsOf(heap[1])) + 1
  /\ ErrsOf(heap[2]) # ErrsOf(heap[1])

----------------------------------------------------------------------------
\* The latest call invoked withAssert(isString, m0).withAssertWhen(c1, p1, m1)
\* .withAssertWhen(c2, p2, m2).
CardCalled ==
  /\ last.op = "call"
  /\ last.src = 3
  /\ bound[3].baseValidator = 2
  /\ bound[2].baseValidator = 1

\* The condition of layer b holds on x.
Matches(b, x) == Passes(bound[b].boundCondition.f, x)

\* What the branch of layer b reports on x.
BranchFailures(b, x) ==
  IF Passes(bound[b].boundTest, x) THEN <<>> ELSE <<bound[b].boundFailureMessage>>

\* C18: when withAssert(isString, m0).withAssertWhen(c1, p1, m1)
\* .withAssertWhen(c2, p2, m2) is invoked on a string for which exactly one of
\* c1, c2 is true, the invocation returns, getFailures() is the message of
\* that branch when its predicate is not satisfied and empty otherwise, and
\* the predicate of the other branch is not evaluated.
C18_OnlyMatchingBranch ==
  (/\ CardCalled
   /\ last.arg.t = "string"
   /\ Matches(2, last.arg) # Matches(3, last.arg)) =>
     /\ ~last.threw
     /\ getFailures(arrs, heap[last.res]) =
          BranchFailures(IF Matches(2, last.arg) THEN 2 ELSE 3, last.arg)
     /\ SelectSeq(last.evals, LAMBDA e : e.role = "test") =
          <<EvTest("isString"),
            EvTest(bound[IF Matches(2, last.arg) THEN 2 ELSE 3].boundTest)>>

\* On 'foo' the first branch matches and fails; the second does not match and
\* its predicate would fail too.
C18_Witness ==
  /\ CardCalled
  /\ last.arg = Str("foo")
  /\ Matches(2, last.arg)
  /\ ~Matches(3, last.arg)
  /\ Fails(bound[2].boundTest, last.arg)
  /\ Fails(bound[3].boundTest, last.arg)
  /\ bound[2].boundFailureMessage # bound[3].boundFailureMessage
  /\ getFailures(arrs, heap[last.res]) = <<bound[2].boundFailureMessage>>

\* C19 (as stated): invoking withAssert(isString, m0) followed by
\* withAssertWhen layers with startsWith conditions on the number 1 does not
\* raise and returns a validator whose getFailures() is <<m0>>.
C19_NonStringReported ==
  (/\ last.op = "call"
   /\ last.src >= 2
   /\ last.arg = Num("1")) =>
     /\ ~last.threw
     /\ getFailures(arrs, heap[last.res]) = <<bound[1].boundFailureMessage>>

----------------------------------------------------------------------------
\* The calls of a chain on value x that applied their predicate and whose
\* predicate returned a falsy value or raised: those that recorded a failure.
FailedCalls(calls, x) == SelectSeq(calls, LAMBDA c : c.applied /\ ~Passes(c.test, x))

\* Some applied assertion of the chain of the instance raised.
SomeRaised(id) ==
  \E i \in 1..Len(hist[id]) : hist[id][i].applied /\ Raises(hist[id][i].test, heap[id].x)

\* C21: hasErrors() of every validator is true exactly when the predicate of
\* some applied assertion of its chain raised, and hasErrors() implies
\* hasFailures().
C21_HasErrors ==
  \A id \in 1..Len(heap) :
     /\ hasErrors(arrs, heap[id]) <=> SomeRaised(id)
     /\ hasErrors(arrs, heap[id]) => hasFailures(arrs, heap[id])

\* A chain with one predicate that returned false and then one that raised:
\* hasErrors() is false after the first and true after the second.
C21_Witness ==
  \E i, j \in 1..Len(heap) :
     /\ Len(hist[i]) = 1
     /\ Fails(hist[i][1].test, heap[i].x)
     /\ hasFailures(arrs, heap[i])
     /\ ~hasErrors(arrs, heap[i])
     /\ Len(hist[j]) = 2
     /\ hist[j][1] = hist[i][1]
     /\ hist[j][2].applied
     /\ Raises(hist[j][2].test, heap[j].x)
     /\ hasErrors(arrs, heap[j])

C23_ErrorsOnly ==
  \A id \in 1..Len(heap) :
     LET raised == SelectSeq(hist[id],
                     LAMBDA c : c.applied /\ Raises(c.test, heap[id].x))
     IN  /\ getErrors(arrs, heap[id]) =
               SelectSeq(getFailuresAndErrors(arrs, heap[id]), isError)
         /\ Len(getErrors(arrs, heap[id])) = Len(raised)
         /\ \A i \in 1..Len(raised) :
               getErrors(arrs, heap[id])[i].message = raised[i].msg.v

\* A plain failure followed by a wrapped error: getErrors() has the second only.
C23_Witness ==
  \E id \in 1..Len(heap) :
     /\ Len(getFailuresAndErrors(arrs, heap[id])) = 2
     /\ Len(getErrors(arrs, heap[id])) = 1
     /\ ~isError(getFailuresAndErrors(arrs, heap[id])[1])
     /\ getErrors(arrs, heap[id])[1] = getFailuresAndErrors(arrs, heap[id])[2]

----------------------------------------------------------------------------
\* C24: the array getFailuresAndErrors() returns has the entries of the
\* failures list in order and is the errs array of no instance; no push, pop
\* or reverse on it changes what the queries of any instance return; and in
\* every state, before and after such changes, the failures of every
\* instance, derived ones included, are those its own chain recorded.
C24_CopyReturned ==
  /\ [](last.op = "getFailuresAndErrors" =>
          /\ arrs[last.res] = ErrsOf(heap[last.src])
          /\ \A id \in 1..Len(heap) : heap[id].errs # last.res)
  /\ [][last'.op \in Mutations =>
          \A id \in 1..Len(heap) :
             /\ heap'[id] = heap[id]
             /\ Queries(arrs', heap'[id]) = Queries(arrs, heap[id])]_vars
  /\ [](\A id \in 1..Len(heap) :
          getFailures(arrs, heap[id]) = FailedMsgs(hist[id], heap[id].x))

\* The caller has changed the array returned for an instance with failures,
\* and then derived a new instance from it with an assert that failed.
C24_Witness ==
  /\ last.op = "assert"
  /\ ~last.threw
  /\ Len(ErrsOf(heap[last.src])) = 1
  /\ Len(ErrsOf(heap[last.res])) = 2
  /\ \E r \in 1..Len(arrs) :
        /\ \A id \in 1..Len(heap) : heap[id].errs # r
        /\ Len(arrs[r]) = 2
        /\ arrs[r][1] = ErrsOf(heap[last.src])[1]
        /\ arrs[r][2] = Str("x")

----------------------------------------------------------------------------
\* Values that are not Validator instances: undefined, null, 1, 'foo',
\* Symbol('foo'), [], {} and () => {}.
NonValidators ==
  {Undefined, Null, Num("1"), Str("foo"), [t |-> "symbol", v |-> "foo"],
   [t |-> "array", v |-> ""], [t |-> "object", v |-> ""], [t |-> "function", v |-> ""]}

\* C25: isValidator is true of every instance the caller has obtained, from
\* Validator, from Validator.Optional, from invoking a BoundValidator and from
\* assert / assertWhen calls on such instances, and false of every
\* BoundValidator, of every entry of a failures list, and of undefined, null,
\* numbers, strings, symbols, arrays, plain objects and functions.
C25_IsValidator ==
  /\ \A id \in 1..Len(heap) : isValidator(heap[id])
  /\ \A b \in 1..Len(bound) : ~isValidator(bound[b])
  /\ \A r \in 1..Len(arrs) : \A i \in 1..Len(arrs[r]) : ~isValidator(arrs[r][i])
  /\ \A v \in NonValidators : ~isValidator(v)

\* An instance from Validator.Optional of a nil value and one from invoking a
\* BoundValidator whose predicate raised.
C25_Witness ==
  /\ Len(heap) = 2
  /\ Len(bound) = 1
  /\ Skips(heap[1])
  /\ last.op = "call"
  /\ last.res = 2
  /\ hasErrors(arrs, heap[2])

----------------------------------------------------------------------------
\* C26 (as stated): every instance derived from the constructed validator by
\* assert / assertWhen calls has the optional flag of the constructor.
C26_OptionalFixed ==
  \A id \in 1..Len(heap) : heap[id].options = heap[1].options

----------------------------------------------------------------------------
\* The layers of bound[b], base layer first.
RECURSIVE Layers(_)
Layers(b) == IF b = 0 THEN <<>> ELSE Append(Layers(bound[b].baseValidator), b)

\* The evaluations among evals that have the role.
Role(evals, role) == SelectSeq(evals, LAMBDA e : e.role = role)

\* The evaluations one layer of an invocation that returned has made: its
\* function condition, if it has one, and its predicate, if it was applied.
LayerEvals(call) ==
  (IF bound[call.layer].boundCondition.t = "function"
     THEN <<EvCond(bound[call.layer].boundCondition.f)>> ELSE <<>>)
  \o (IF call.applied THEN <<EvTest(call.test)>> ELSE <<>>)

RECURSIVE ChainEvals(_)
ChainEvals(calls) ==
  IF calls = <<>> THEN <<>>
  ELSE ChainEvals(Front(calls)) \o LayerEvals(calls[Len(calls)])

\* C27: an assert call evaluates its predicate once, and not at all on an
\* optional validator with a nil value; an assertWhen call with a function
\* condition evaluates the condition once, first, and then the predicate once
\* if the condition returned a truthy value and the assertion is not skipped,
\* and not at all otherwise; an invocation of a BoundValidator evaluates, layer
\* by layer from the base, the condition of each layer at most once and its
\* predicate at most once.
C27_NoDoubleEvaluation ==
  /\ last.op = "assert" =>
        last.evals = IF Skips(heap[last.src]) THEN <<>> ELSE <<EvTest(last.test)>>
  /\ (last.op = "assertWhen" /\ last.cond.t = "function") =>
        last.evals =
          <<EvCond(last.cond.f)>> \o
            (IF Passes(last.cond.f, heap[last.src].x) /\ ~Skips(heap[last.src])
               THEN <<EvTest(last.test)>> ELSE <<>>)
  /\ last.op = "call" =>
        /\ Len(Role(last.evals, "test")) <= Len(Layers(last.src))
        /\ Len(Role(last.evals, "condition")) <= Len(Layers(last.src))
        /\ ~last.threw =>
              /\ [i \in 1..Len(hist[last.res]) |-> hist[last.res][i].layer] = Layers(last.src)
              /\ last.evals = ChainEvals(hist[last.res])

\* An invocation of a validator of two layers, the second conditional, that
\* evaluated the predicate of the base, the condition, and the predicate of
\* the second layer, in this order.
C27_Witness ==
  /\ last.op = "call"
  /\ ~last.threw
  /\ Len(Layers(last.src)) = 2
  /\ Len(last.evals) = 3
  /\ last.evals[1].role = "test"
  /\ last.evals[2].role = "condition"
  /\ last.evals[3].role = "test"
  /\ last.evals[1].f # last.evals[3].f

----------------------------------------------------------------------------
(* The reference model of C28: assert and assertWhen as in the code, except *)
(* that the failure and exception branches pass the options on.            *)

RefAssert(h, self, test, errorMsg) ==
  IF self.options = OptionalOptions /\ self.x.t \in {"null", "undefined"}
    THEN Returned(h, self, <<>>)
    ELSE IF Raises(test, self.x)
           THEN Returned(Append(h, Append(h[self.errs], ValidationError(errorMsg, Undefined))),
                         [self EXCEPT !.errs = Len(h) + 1], <<>>)
           ELSE IF Passes(test, self.x)
                  THEN Returned(h, self, <<>>)
                  ELSE Returned(Append(h, Append(h[self.errs], errorMsg)),
                                [self EXCEPT !.errs = Len(h) + 1], <<>>)

RefAssertWhen(h, self, condition, test, errorMsg) ==
  CASE condition.t = "function" ->
         IF Raises(condition.f, self.x) THEN Thrown(h, Apply(condition.f, self.x).val, <<>>)
         ELSE IF Passes(condition.f, self.x) THEN RefAssert(h, self, test, errorMsg)
         ELSE Returned(h, self, <<>>)
    [] condition.t = "boolean" ->
         IF condition.b THEN RefAssert(h, self, test, errorMsg) ELSE Returned(h, self, <<>>)
    [] OTHER -> Thrown(h, NewError("TypeError", Str("")), <<>>)

\* The instance of the reference model that corresponds to an instance of the
\* code: the same value and failures, the optional flag of the constructor.
RefOf(self) == [self EXCEPT !.options = heap[1].options]

\* C28: for every call made on an instance, the same call made in the
\* reference model on the corresponding instance raises exactly when the
\* call of the code raised and otherwise returns an instance with the flag of
\* the constructor on which hasFailures, hasErrors, getFailuresAndErrors,
\* getFailures and getErrors return what they return on the result of the
\* code.
C28_DroppedOptionsUnobservable ==
  (last.op \in {"assert", "assertWhen"}) =>
     LET ref == IF last.op = "assert"
                  THEN RefAssert(arrs, RefOf(heap[last.src]), last.test, last.msg)
                  ELSE RefAssertWhen(arrs, RefOf(heap[last.src]), last.cond,
                                     last.test, last.msg)
     IN  /\ ref.threw = last.threw
         /\ last.threw => ref.exc.name = last.exc.name
         /\ ~last.threw =>
               /\ ref.obj.options = heap[1].options
               /\ ref.obj.x = heap[last.res].x
               /\ Queries(ref.arrs, ref.obj) = Queries(arrs, heap[last.res])

\* A call on an instance that has lost the flag of Validator.Optional: the
\* predicate raised and the failure was recorded.
C28_Witness ==
  /\ ReturnedFrom("assert")
  /\ heap[1].options = OptionalOptions
  /\ heap[last.src].options = EmptyOptions
  /\ Len(ErrsOf(heap[last.src])) = 1
  /\ Len(ErrsOf(heap[last.res])) = 2
  /\ hasErrors(arrs, heap[last.res])

----------------------------------------------------------------------------
\* C29: every instance that comes from invoking a BoundValidator, directly or
\* through later assert / assertWhen calls, is non-optional; the invocation
\* applies every layer bound without a condition, on nil values too, and
\* the failures of the instance are those of the applied calls whose
\* predicate returned false or raised; and an assert call on such an
\* instance evaluates its predicate.
C29_BoundNeverOptional ==
  /\ \A id \in 1..Len(heap) :
        Origin(hist[id]) # 0 =>
          /\ heap[id].options = EmptyOptions
          /\ \A i \in 1..Len(hist[id]) :
                (/\ hist[id][i].layer # 0
                 /\ bound[hist[id][i].layer].boundCondition = NoBoundCondition) =>
                   hist[id][i].applied
          /\ getFailures(arrs, heap[id]) = FailedMsgs(hist[id], heap[id].x)
  /\ (last.op = "assert" /\ Origin(hist[last.src]) # 0) =>
        /\ ~last.threw
        /\ last.evals = <<EvTest(last.test)>>
        /\ hist[last.res][Len(hist[last.res])].applied

\* B(null) for a BoundValidator B of one layer recorded the failure of the
\* bound predicate, and an assert on the result recorded a wrapped error.
C29_Witness ==
  /\ ReturnedFrom("assert")
  /\ Origin(hist[last.src]) # 0
  /\ heap[last.src].x = Null
  /\ Len(ErrsOf(heap[last.src])) = 1
  /\ Len(ErrsOf(heap[last.res])) = 2
  /\ hasErrors(arrs, heap[last.res])

----------------------------------------------------------------------------
\* C30: whatever the failure message is, a string or not, an applied assert
\* whose predicate returned false adds exactly one entry to the failures:
\* getFailuresAndErrors() of the result is that of the source followed by
\* one entry, and hasFailures() of the result is true.
C30_OneEntryPerFailure ==
  (/\ ReturnedFrom("assert")
   /\ ~Skips(Src)
   /\ Fails(last.test, Src.x)) =>
     /\ Len(getFailuresAndErrors(arrs, Res)) = Len(getFailuresAndErrors(arrs, Src)) + 1
     /\ IsPrefix(getFailuresAndErrors(arrs, Src), getFailuresAndErrors(arrs, Res))
     /\ hasFailures(arrs, Res)

====
